---------------------------- MODULE Spec2Model ----------------------------
(***************************************************************************)
(* A model of quadratic_catalan_solver.py: CatalanSolver.catalan_number    *)
(* and CatalanSolver.solve with every helper it calls.                     *)
(*                                                                         *)
(* Python's int is unbounded; it is modelled by a sequence of limbs in     *)
(* base Base (least significant limb first, no high zero limb).  Python's  *)
(* float is an IEEE 754 double: a mantissa of 53 bits, every operation     *)
(* rounded to the nearest with ties to even, an overflow to inf (an        *)
(* OverflowError for the power operator and for int to float) from 2^1024  *)
(* on and a gradual underflow to 0 below 2^-1022.                          *)
(***************************************************************************)
EXTENDS Integers, Sequences, FiniteSets, TLC

\* ------------------------------------------------------------------------
\* Unbounded naturals (Python int >= 0)
\* ------------------------------------------------------------------------

\* The limbs have LimbBits bits: every limb is in 0..Base-1, and a sum of
\* 32 products of limbs is below 2^31.
LimbBits == 13
Base == 2 ^ LimbBits

Limb(a, i) == IF i >= 1 /\ i <= Len(a) THEN a[i] ELSE 0

Max(i, j) == IF i > j THEN i ELSE j

\* The number of limbs of a up to its highest limb that is not zero
NTopLen(a) ==
    CHOOSE n \in 0..Len(a) :
        (n = 0 \/ a[n] # 0) /\ \A k \in (n + 1)..Len(a) : a[k] = 0

\* a without its high zero limbs
NNorm(a) == SubSeq(a, 1, NTopLen(a))

NFromSmall(k) == IF k = 0 THEN <<>>
                 ELSE IF k < Base THEN <<k>>
                 ELSE IF k < Base * Base THEN <<k % Base, k \div Base>>
                 ELSE <<k % Base, (k \div Base) % Base, k \div (Base * Base)>>

\* -1 or 1 as a < b or a > b, top being the highest limb in which they differ
NCmpAt(a, b, top) == IF a[top] < b[top] THEN -1 ELSE 1

\* -1, 0, 1 as a < b, a = b, a > b (both without high zero limbs)
NCmp(a, b) ==
    IF Len(a) < Len(b) THEN -1
    ELSE IF Len(a) > Len(b) THEN 1
    ELSE IF a = b THEN 0
    ELSE NCmpAt(a, b, CHOOSE i \in 1..Len(a) :
                          a[i] # b[i] /\ \A k \in (i + 1)..Len(a) : a[k] = b[k])

\* Whether the limbs below i of a and b carry into limb i of their sum: some
\* limb j overflows and every limb between j and i passes the carry on
NCarryInto(a, b, i) ==
    \E j \in 1..(i - 1) :
        /\ Limb(a, j) + Limb(b, j) >= Base
        /\ \A k \in (j + 1)..(i - 1) : Limb(a, k) + Limb(b, k) = Base - 1

NAdd(a, b) ==
    IF a = <<>> THEN b
    ELSE IF b = <<>> THEN a
    ELSE NNorm([i \in 1..(Max(Len(a), Len(b)) + 1) |->
              (Limb(a, i) + Limb(b, i) + (IF NCarryInto(a, b, i) THEN 1 ELSE 0)) % Base])

\* Whether limb i of a - b lends to the limbs below it
NBorrowFrom(a, b, i) ==
    \E j \in 1..(i - 1) :
        /\ a[j] < Limb(b, j)
        /\ \A k \in (j + 1)..(i - 1) : a[k] = Limb(b, k)

\* a - b for a >= b
NSub(a, b) ==
    IF b = <<>> THEN a
    ELSE NNorm([i \in 1..Len(a) |->
              (Base + a[i] - Limb(b, i) - (IF NBorrowFrom(a, b, i) THEN 1 ELSE 0)) % Base])

\* a * Base^k (k >= 0), or the whole part of a / Base^(-k) (k < 0)
NShift(a, k) == IF a = <<>> THEN <<>>
                ELSE IF k >= 0 THEN [i \in 1..(Len(a) + k) |-> IF i <= k THEN 0 ELSE a[i - k]]
                ELSE IF -k >= Len(a) THEN <<>>
                ELSE SubSeq(a, 1 - k, Len(a))

\* The natural with the column sums cols (each below 2^31, cols[i] counting
\* Base^(i - 1)): the three limbs of every sum, added up
NFromColumns(cols) ==
    NAdd(NAdd([i \in 1..Len(cols) |-> cols[i] % Base],
              [i \in 1..(Len(cols) + 1) |-> (Limb(cols, i - 1) \div Base) % Base]),
         [i \in 1..(Len(cols) + 2) |-> Limb(cols, i - 2) \div (Base * Base)])

\* a * k for a small k (0 <= k < 200000)
NMulSmall(a, k) ==
    IF a = <<>> \/ k = 0 THEN <<>>
    ELSE NFromColumns([i \in 1..Len(a) |-> a[i] * k])

\* a * k for a limb k: the low limbs of the products plus their high limbs
NMulLimb(a, k) ==
    IF a = <<>> \/ k = 0 THEN <<>>
    ELSE NAdd([i \in 1..Len(a) |-> (a[i] * k) % Base],
         [i \in 1..(Len(a) + 1) |-> (Limb(a, i - 1) * k) \div Base])

\* The sum of a[i] * b[k + 1 - i] for i in lo..hi: column k of the product
RECURSIVE NMulColumn(_, _, _, _, _)
NMulColumn(a, b, k, lo, hi) ==
    IF lo > hi THEN 0
    ELSE IF lo = hi THEN a[lo] * b[k + 1 - lo]
    ELSE NMulColumn(a, b, k, lo, (lo + hi) \div 2)
         + NMulColumn(a, b, k, (lo + hi) \div 2 + 1, hi)

\* a * b, by columns (the shorter factor has at most 32 limbs, so that a
\* column sum stays below 2^31)
NMul(a, b) ==
    IF a = <<>> \/ b = <<>> THEN <<>>
    ELSE NFromColumns([k \in 1..(Len(a) + Len(b) - 1) |->
                          NMulColumn(a, b, k, IF k > Len(b) THEN k - Len(b) + 1 ELSE 1,
                                              IF k < Len(a) THEN k ELSE Len(a))])

\* Quotient and remainder of a by a small k (1 <= k < 200000): the limbs
\* lo..hi of a are divided from the top down, rem (below k, so that
\* rem * Base + limb < 2^31) being the remainder of the limbs above them,
\* the upper half of the limbs before the lower half.
RECURSIVE NDivSmallRange(_, _, _, _, _)

NDivSmallJoin(up, low) == [q |-> low.q \o up.q, r |-> low.r]

\* ... up being the outcome for the limbs above mid: nothing is left to
\* divide when its remainder and the limbs lo..mid are zero
NDivSmallLower(a, k, lo, mid, up) ==
    IF up.r = 0 /\ \A i \in lo..mid : a[i] = 0
    THEN [q |-> [i \in 1..(mid - lo + 1) |-> 0] \o up.q, r |-> 0]
    ELSE NDivSmallJoin(up, NDivSmallRange(a, k, lo, mid, up.r))

NDivSmallRange(a, k, lo, hi, rem) ==
    IF lo = hi
    THEN [q |-> <<(rem * Base + a[lo]) \div k>>, r |-> (rem * Base + a[lo]) % k]
    ELSE NDivSmallLower(a, k, lo, (lo + hi) \div 2,
                        NDivSmallRange(a, k, (lo + hi) \div 2 + 1, hi, rem))

NDivSmallNorm(qr) == [q |-> NNorm(qr.q), r |-> qr.r]

NDivSmall(a, k) ==
    IF a = <<>> THEN [q |-> <<>>, r |-> 0]
    ELSE NDivSmallNorm(NDivSmallRange(a, k, 1, Len(a), 0))

\* The largest q in lo..hi with d * q <= r (d * lo <= r is given)
RECURSIVE NQuotDigit(_, _, _, _)
NQuotDigit(r, d, lo, hi) ==
    IF lo >= hi THEN lo
    ELSE IF NCmp(NMulLimb(d, (lo + hi + 1) \div 2), r) <= 0
    THEN NQuotDigit(r, d, (lo + hi + 1) \div 2, hi)
    ELSE NQuotDigit(r, d, lo, (lo + hi + 1) \div 2 - 1)

\* One step of the long division of a by d: st.r is the remainder of the
\* limbs of a above limb i (below d) and st.q the limbs of their quotient;
\* cur is st.r with the limb a[i] appended, top its two top limbs over the
\* top limb of d, and dig the next limb of the quotient.
NDivTake(d, st, cur, dig) ==
    [r |-> NSub(cur, NMulLimb(d, dig)), q |-> <<dig>> \o st.q]

NDivDigit(d, st, cur, top) ==
    NDivTake(d, st, cur,
             NQuotDigit(cur, d, top \div (d[Len(d)] + 1),
                        IF top \div d[Len(d)] > Base - 1 THEN Base - 1
                        ELSE top \div d[Len(d)]))

NDivCur(d, st, cur) ==
    IF Len(cur) < Len(d) THEN [r |-> cur, q |-> <<0>> \o st.q]
    ELSE NDivDigit(d, st, cur, Limb(cur, Len(d) + 1) * Base + Limb(cur, Len(d)))

NDivStep(a, d, st, i) == NDivCur(d, st, NNorm(<<a[i]>> \o st.r))

\* The steps for the limbs lo..hi of a, the upper half of them before the
\* lower half
RECURSIVE NDivSteps(_, _, _, _, _)

\* ... st being the outcome for the limbs above mid: nothing is left to
\* divide when its remainder and the limbs lo..mid are zero
NDivLower(a, d, lo, mid, st) ==
    IF st.r = <<>> /\ \A i \in lo..mid : a[i] = 0
    THEN [r |-> <<>>, q |-> [i \in 1..(mid - lo + 1) |-> 0] \o st.q]
    ELSE NDivSteps(a, d, lo, mid, st)

NDivSteps(a, d, lo, hi, st) ==
    IF lo = hi THEN NDivStep(a, d, st, lo)
    ELSE NDivLower(a, d, lo, (lo + hi) \div 2,
                   NDivSteps(a, d, (lo + hi) \div 2 + 1, hi, st))

NDivNorm(st) == [q |-> NNorm(st.q), r |-> st.r]

NDivStart(a, d) == NDivNorm(NDivSteps(a, d, 1, Len(a), [r |-> <<>>, q |-> <<>>]))

NDivUnscale(qr, f) == [q |-> qr.q, r |-> NDivSmall(qr.r, f).q]

NDivScaled(a, d, f) == NDivUnscale(NDivStart(NMulLimb(a, f), NMulLimb(d, f)), f)

\* Quotient and remainder of a by d (d # 0).  Both are first scaled by f so
\* that the top limb of the divisor is at least Base / 2, which leaves
\* NDivStep at most a few candidates for every quotient limb.
NDivMod(a, d) ==
    IF NCmp(a, d) < 0 THEN [q |-> <<>>, r |-> a]
    ELSE NDivScaled(a, d, Base \div (d[Len(d)] + 1))

\* The number of bits of a limb t
SmallBitLen(t) == CHOOSE b \in 0..LimbBits : t < 2 ^ b /\ (b = 0 \/ t >= 2 ^ (b - 1))

\* The number of bits of a
NBitLen(a) ==
    IF a = <<>> THEN 0 ELSE LimbBits * (Len(a) - 1) + SmallBitLen(a[Len(a)])

\* a * 2^b for b < LimbBits: limb i takes the low bits of a[i] and the high
\* bits of a[i - 1]
NShlBits(a, b) ==
    IF a = <<>> \/ b = 0 THEN a
    ELSE NNorm([i \in 1..(Len(a) + 1) |->
              ((Limb(a, i) * (2 ^ b)) % Base) + (Limb(a, i - 1) \div (2 ^ (LimbBits - b)))])

\* a * 2^j
NShl(a, j) == NShlBits(NShift(a, j \div LimbBits), j % LimbBits)

\* The whole part of a / 2^b for b < LimbBits: limb i takes the high bits of
\* a[i] and the low bits of a[i + 1]
NShrBits(a, b) ==
    IF a = <<>> \/ b = 0 THEN a
    ELSE NNorm([i \in 1..Len(a) |->
              (a[i] \div (2 ^ b)) + ((Limb(a, i + 1) % (2 ^ b)) * (2 ^ (LimbBits - b)))])

\* The whole part q of a / 2^j, and whether a bit was dropped: drop limbs
\* and b bits are dropped
NShrLimbs(a, drop, b) ==
    [q |-> NShrBits(SubSeq(a, drop + 1, Len(a)), b),
     sticky |-> (a[drop + 1] % (2 ^ b)) # 0 \/ \E i \in 1..drop : a[i] # 0]

NShr(a, j) ==
    IF j \div LimbBits >= Len(a) THEN [q |-> <<>>, sticky |-> a # <<>>]
    ELSE NShrLimbs(a, j \div LimbBits, j % LimbBits)

\* Newton's iteration on naturals from an x above the root: the next
\* iterate is (x + n \div x) \div 2, which is below x unless n \div x >= x,
\* and the first x it does not lower is the whole part of the root.
RECURSIVE NSqrtNewton(_, _)

NSqrtNext(n, x, quot) ==
    IF NCmp(quot, x) >= 0 THEN x ELSE NSqrtNewton(n, NShrBits(NAdd(x, quot), 1))

NSqrtNewton(n, x) == NSqrtNext(n, x, NDivMod(n, x).q)

\* The whole part of the square root of n
NSqrt(n) ==
    IF n = <<>> THEN <<>>
    ELSE NSqrtNewton(n, NShl(<<1>>, (NBitLen(n) + 1) \div 2))

\* ------------------------------------------------------------------------
\* Floats (Python float, an IEEE 754 double): [k, s, m, e] is the value
\* s * m * 2^e when k = "fin" (s in {-1, 0, 1}; m a natural below 2^MantBits
\* and e >= MinBinExp, with m at least 2^(MantBits - 1) unless e = MinBinExp;
\* zero is s = 0, m = <<>>, e = 0), s * infinity when k = "inf" and
\* not-a-number when k = "nan".  Any other k is the name of the exception
\* that the expression raised instead of having a value.  Every operation
\* rounds its exact result to the nearest float, ties to the even mantissa.
\* ------------------------------------------------------------------------

\* Bits of mantissa of a double
MantBits == 53
\* A finite double is below 2^MaxBinExp in magnitude ...
MaxBinExp == 1024
\* ... and a multiple of 2^MinBinExp.
MinBinExp == -1074
\* Bits of mantissa kept between the multiplications of a power
WideBits == 128

FVal(k, s, m, e) == [k |-> k, s |-> s, m |-> m, e |-> e]

FZero == FVal("fin", 0, <<>>, 0)
FInf(s) == FVal("inf", s, <<>>, 0)
FNaN == FVal("nan", 0, <<>>, 0)
Raised(exc) == FVal(exc, 0, <<>>, 0)

IsErr(x) == x.k \notin {"fin", "inf", "nan"}
IsFin(x) == x.k = "fin"

\* The float of s * m * 2^e for an m of len <= MantBits + 1 bits that needs
\* no rounding
FPackLen(s, m, e, len) ==
    IF len = 0 \/ s = 0 THEN FVal("fin", 0, <<>>, 0)
    ELSE IF e + len > MaxBinExp THEN FVal("inf", s, <<>>, 0)
    ELSE IF len > MantBits THEN FVal("fin", s, NShrBits(m, 1), e + 1)
    ELSE FVal("fin", s, m, e)

FPack(s, m, e) == FPackLen(s, m, e, NBitLen(m))

\* t/2 to the nearest natural, ties to even, for t = shifted.q, the exact
\* value being above t when shifted.sticky or sticky
RoundHalf(half, odd, sticky) ==
    IF odd /\ (sticky \/ (half # <<>> /\ half[1] % 2 = 1))
    THEN NAdd(half, <<1>>)
    ELSE half

RoundShifted(shifted, sticky) ==
    RoundHalf(NShrBits(shifted.q, 1), shifted.q # <<>> /\ shifted.q[1] % 2 = 1,
              sticky \/ shifted.sticky)

\* FRound for the k bits of m that do not fit
FRoundBits(s, m, e, sticky, k) ==
    FPack(s, IF k <= 0 THEN NShl(m, -k) ELSE RoundShifted(NShr(m, k - 1), sticky), e + k)

\* The float nearest to s * m * 2^e, or when sticky to a value between that
\* and s * (m + 1) * 2^e
FRound(s, m, e, sticky) ==
    IF m = <<>> /\ ~sticky THEN FVal("fin", 0, <<>>, 0)
    ELSE FRoundBits(s, m, e, sticky, Max(NBitLen(m) - MantBits, MinBinExp - e))

\* The float of the Python int n (int.__float__)
FFromIntRounded(r) == IF r.k = "inf" THEN Raised("OverflowError") ELSE r
FFromInt(n) == FFromIntRounded(FRound(1, n, 0, FALSE))

\* a * 10^d, the first half of the factors 10 before the second
RECURSIVE NTimesPow10(_, _)

NTimesPow10Rest(half, d) == IF half = <<>> THEN half ELSE NTimesPow10(half, d)

NTimesPow10(a, d) ==
    IF d <= 0 THEN a
    ELSE IF d <= 3 THEN NMulSmall(a, 10 ^ d)
    ELSE NTimesPow10Rest(NTimesPow10(a, d \div 2), d - d \div 2)

\* The float nearest to the quotient of naturals of which qr is the whole
\* part and the remainder after the dividend was multiplied by 2^j
FQuotientBy(s, j, qr) == FRound(s, qr.q, -j, qr.r # <<>>)

FQuotientOf(s, num, den, j) == FQuotientBy(s, j, NDivMod(NShl(num, j), den))

FQuotient(s, num, den) ==
    FQuotientOf(s, num, den, Max(0, NBitLen(den) + MantBits + 3 - NBitLen(num)))

\* The float written s * k e d in the source (k a small natural): k * 10^d
\* to the nearest
FLit(s, k, d) ==
    IF d >= 0 THEN FRound(s, NTimesPow10(NFromSmall(k), d), 0, FALSE)
    ELSE FQuotient(IF k = 0 THEN 0 ELSE s, NFromSmall(k), NTimesPow10(<<1>>, -d))

\* The floats 1.0, 2.0 and 4.0
One == FVal("fin", 1, <<0, 0, 0, 0, 1>>, -52)
Two == FVal("fin", 1, <<0, 0, 0, 0, 1>>, -51)
Four == FVal("fin", 1, <<0, 0, 0, 0, 1>>, -50)

FNeg(x) == IF x.k \in {"fin", "inf"} THEN [x EXCEPT !.s = -x.s] ELSE x

\* abs()
FAbs(x) == IF x.k \in {"fin", "inf"} /\ x.s < 0 THEN [x EXCEPT !.s = 1] ELSE x

\* -1, 0, 1 as |x| < |y|, |x| = |y|, |x| > |y| for finite x, y
FMagCmp(x, y) ==
    IF x.s = 0 \/ y.s = 0
    THEN (IF x.s = 0 /\ y.s = 0 THEN 0 ELSE IF x.s = 0 THEN -1 ELSE 1)
    ELSE IF x.e # y.e THEN (IF x.e < y.e THEN -1 ELSE 1)
    ELSE NCmp(x.m, y.m)

\* -1, 0, 1 as x < y, x = y, x > y for x, y finite or infinite
FCmp(x, y) ==
    IF x.k = "inf" \/ y.k = "inf"
    THEN LET vx == IF x.k = "inf" THEN 2 * x.s ELSE x.s
             vy == IF y.k = "inf" THEN 2 * y.s ELSE y.s
         IN  IF (x.k = "inf" /\ y.k = "inf" /\ x.s = y.s) THEN 0
             ELSE IF vx < vy THEN -1 ELSE 1
    ELSE IF x.s # y.s THEN (IF x.s < y.s THEN -1 ELSE 1)
    ELSE IF x.s = 0 THEN 0
    ELSE x.s * FMagCmp(x, y)

Ordered(x, y) == x.k \in {"fin", "inf"} /\ y.k \in {"fin", "inf"}

\* x < y, x <= y, x > y: every comparison with a nan is False
FLt(x, y) == Ordered(x, y) /\ FCmp(x, y) < 0
FLe(x, y) == Ordered(x, y) /\ FCmp(x, y) <= 0
FGt(x, y) == Ordered(x, y) /\ FCmp(x, y) > 0

\* hi + lo for non-zero finite floats with hi.e >= lo.e, hm being the
\* mantissa of hi at the exponent of lo and c its comparison with lo.m
FAddCompared(hi, lo, hm, c) ==
    FRound(IF hi.s = lo.s \/ c >= 0 THEN hi.s ELSE lo.s,
           IF hi.s = lo.s THEN NAdd(hm, lo.m)
           ELSE IF c >= 0 THEN NSub(hm, lo.m) ELSE NSub(lo.m, hm),
           lo.e, FALSE)

FAddAligned(hi, lo, hm) == FAddCompared(hi, lo, hm, NCmp(hm, lo.m))

\* hi + lo for non-zero finite floats with hi.e >= lo.e: lo is below a
\* quarter of the last bit of hi when the exponents are MantBits + 3 apart
FAddOrdered(hi, lo) ==
    IF hi.e - lo.e > MantBits + 3 THEN hi
    ELSE FAddAligned(hi, lo, NShl(hi.m, hi.e - lo.e))

FAddFin(x, y) ==
    IF x.s = 0 THEN y
    ELSE IF y.s = 0 THEN x
    ELSE FAddOrdered(IF x.e >= y.e THEN x ELSE y, IF x.e >= y.e THEN y ELSE x)

\* x + y
FAdd(x, y) ==
    IF IsErr(x) THEN x
    ELSE IF IsErr(y) THEN y
    ELSE IF x.k = "nan" \/ y.k = "nan" THEN FNaN
    ELSE IF x.k = "inf" THEN (IF y.k = "inf" /\ y.s # x.s THEN FNaN ELSE x)
    ELSE IF y.k = "inf" THEN y
    ELSE FAddFin(x, y)

\* x - y
FSub(x, y) == FAdd(x, FNeg(y))

\* x * y
FMul(x, y) ==
    IF IsErr(x) THEN x
    ELSE IF IsErr(y) THEN y
    ELSE IF x.k = "nan" \/ y.k = "nan" THEN FNaN
    ELSE IF x.k = "inf" \/ y.k = "inf"
         THEN (IF x.s = 0 \/ y.s = 0 THEN FNaN ELSE FInf(x.s * y.s))
    ELSE IF x.s = 0 \/ y.s = 0 THEN FZero
    ELSE FRound(x.s * y.s, NMul(x.m, y.m), x.e + y.e, FALSE)

\* x / y for finite non-zero x, y
FDivBy(x, y, j, qr) == FRound(x.s * y.s, qr.q, x.e - y.e - j, qr.r # <<>>)

FDivShifted(x, y, j) == FDivBy(x, y, j, NDivMod(NShl(x.m, j), y.m))

FDivFin(x, y) ==
    FDivShifted(x, y, Max(0, NBitLen(y.m) + MantBits + 3 - NBitLen(x.m)))

\* x / y (float.__truediv__)
FDiv(x, y) ==
    IF IsErr(x) THEN x
    ELSE IF IsErr(y) THEN y
    ELSE IF y.k = "fin" /\ y.s = 0 THEN Raised("ZeroDivisionError")
    ELSE IF x.k = "nan" \/ y.k = "nan" THEN FNaN
    ELSE IF x.k = "inf" THEN (IF y.k = "inf" THEN FNaN ELSE FInf(x.s * y.s))
    ELSE IF y.k = "inf" \/ x.s = 0 THEN FZero
    ELSE FDivFin(x, y)

\* math.sqrt(x) for a finite x > 0, sq being x.m * 2^j with x.e - j even
FSqrtRoot(sq, root, e) ==
    IF root = <<>> THEN FVal("fin", 0, <<>>, 0)
    ELSE FRound(1, root, e, NCmp(NMul(root, root), sq) # 0)

FSqrtOf(sq, e) == FSqrtRoot(sq, NSqrt(sq), e)

FSqrtShifted(x, j) == FSqrtOf(NShl(x.m, j), (x.e - j) \div 2)

FSqrtFin(x, j) == FSqrtShifted(x, IF (x.e - j) % 2 = 0 THEN j ELSE j + 1)

\* math.sqrt(x)
FSqrt(x) ==
    IF IsErr(x) \/ x.k = "nan" THEN x
    ELSE IF x.s < 0 THEN Raised("ValueError")
    ELSE IF x.k = "inf" \/ x.s = 0 THEN x
    ELSE FSqrtFin(x, 2 * MantBits + 6 - NBitLen(x.m))

\* m * 2^e cut to WideBits bits, st telling whether a bit was dropped
WVal(m, e, st) == [m |-> m, e |-> e, st |-> st]

WCut(shifted, e, st) == WVal(shifted.q, e, st \/ shifted.sticky)

WNormBits(m, e, st, k) ==
    IF k <= 0 THEN WVal(m, e, st) ELSE WCut(NShr(m, k), e + k, st)

WNorm(m, e, st) == WNormBits(m, e, st, NBitLen(m) - WideBits)

WMul(a, b) == WNorm(NMul(a.m, b.m), a.e + b.e, a.st \/ b.st)

\* sq, times x when odd (sq is never zero)
WTimes(sq, x, odd) == IF odd /\ sq.m # <<>> THEN WMul(sq, x) ELSE sq

\* h squared, times x when odd (h is never zero)
WSquareTimes(h, x, odd) == IF h.m = <<>> THEN h ELSE WTimes(WMul(h, h), x, odd)

\* x^n (n >= 1) by squaring
RECURSIVE WPow(_, _)
WPow(x, n) ==
    IF n = 1 THEN x ELSE WSquareTimes(WPow(x, n \div 2), x, n % 2 = 1)

FPowRounded(x, r) ==
    IF r.k = "inf" THEN Raised("OverflowError") ELSE r

FPowWide(x, n, w) ==
    FPowRounded(x, FRound(IF n % 2 = 1 THEN x.s ELSE 1, w.m, w.e, w.st))

\* x ** n for a float x and an int n >= 0 (float_pow): 1.0 for n = 0, the
\* power to the nearest otherwise, and an OverflowError when the power of a
\* finite x is out of range
FPow(x, n) ==
    IF IsErr(x) THEN x
    ELSE IF n = 0 THEN One
    ELSE IF x.k = "nan" THEN x
    ELSE IF x.k = "inf" THEN FInf(IF n % 2 = 1 THEN x.s ELSE 1)
    ELSE IF x.s = 0 THEN FZero
    ELSE FPowWide(x, n, WPow(WVal(x.m, x.e, FALSE), n))

\* ------------------------------------------------------------------------
\* CatalanSolver
\* ------------------------------------------------------------------------

DEFAULT_TOLERANCE == FLit(1, 1, -10)
MAX_TERMS == 100
ZERO_THRESHOLD == FLit(1, 1, -15)
CATALAN_THRESHOLD == FLit(1, 25, -2)

\* One pass of the loop body of catalan_number: result * (2n - i) // (i + 1),
\* as [q |-> the floor quotient, r |-> the remainder the floor division drops]
CatalanLoopBodyDivideFirst(result, n, i) ==
    [q |-> NMulSmall(NDivSmall(result, i + 1).q, 2 * n - i),
     r |-> NDivSmall(result, i + 1).r]

CatalanLoopBody(result, n, i) == NDivSmall(NMulSmall(result, 2 * n - i), i + 1)

\* The passes lo..hi-1 of the for loop of catalan_number, in order, from
\* result (the range is halved only to keep the evaluation shallow)
RECURSIVE CatalanLoop(_, _, _, _)
CatalanLoop(result, n, lo, hi) ==
    IF lo >= hi THEN result
    ELSE IF hi = lo + 1 THEN CatalanLoopBody(result, n, lo).q
    ELSE LET mid  == (lo + hi) \div 2
             half == CatalanLoop(result, n, lo, mid)
         IN  IF half = <<>> THEN half ELSE CatalanLoop(half, n, mid, hi)

\* catalan_number(n), n >= 0
catalan_number(n) ==
    IF n = 0 THEN <<1>>
    ELSE NDivSmall(CatalanLoop(<<1>>, n, 0, n), n + 1).q

\* catalan_number over the indices the series loop calls it with
CatalanNumbers == [k \in 0..(MAX_TERMS - 1) |-> catalan_number(k)]

\* _is_zero(value)
is_zero(value) == FLt(FAbs(value), ZERO_THRESHOLD)

None == "None"

\* What a call of solve ends with: a Solution (raised = None), or the
\* exception that left it (raised names it and the other fields are empty).
Solution(roots, method_used, terms_used, error) ==
    [raised |-> None, roots |-> roots, method_used |-> method_used,
     terms_used |-> terms_used, error |-> error]

Raise(exc) ==
    [raised |-> exc, roots |-> <<>>, method_used |-> None,
     terms_used |-> None, error |-> None]

\* return Solution([root], method_used), unless computing root raised
OneRoot(root, method_used) ==
    IF IsErr(root) THEN Raise(root.k)
    ELSE Solution(<<root>>, method_used, None, None)

\* return Solution([root1, root2], method_used), unless computing root1 or
\* root2 raised
TwoRoots(root1, root2, method_used) ==
    IF IsErr(root1) THEN Raise(root1.k)
    ELSE IF IsErr(root2) THEN Raise(root2.k)
    ELSE Solution(<<root1, root2>>, method_used, None, None)

\* _solve_linear with the sign of the root lost
solve_linear_sign(equation) ==
    IF is_zero(equation.b)
    THEN (IF is_zero(equation.c)
          THEN Solution(<<>>, "Infinite solutions", None, None)
          ELSE Solution(<<>>, "No solution", None, None))
    ELSE OneRoot(FDiv(equation.c, equation.b), "Linear")

\* _solve_linear(equation)
solve_linear(equation) ==
    IF is_zero(equation.b)
    THEN (IF is_zero(equation.c)
          THEN Solution(<<>>, "Infinite solutions", None, None)
          ELSE Solution(<<>>, "No solution", None, None))
    ELSE OneRoot(FDiv(FNeg(equation.c), equation.b), "Linear")

\* _solve_missing_c returning a coinciding root once
solve_missing_c_dedup(equation) ==
    IF FCmp(FDiv(FNeg(equation.b), equation.a), FZero) = 0
    THEN OneRoot(FZero, "Factorization (c=0)")
    ELSE TwoRoots(FZero, FDiv(FNeg(equation.b), equation.a), "Factorization (c=0)")

\* _solve_missing_c(equation)
solve_missing_c(equation) ==
    TwoRoots(FZero, FDiv(FNeg(equation.b), equation.a), "Factorization (c=0)")

\* _solve_missing_b returning the negative root first
missing_b_roots_swapped(sqrt_disc) ==
    TwoRoots(FNeg(sqrt_disc), sqrt_disc, "Direct root (b=0)")

\* _solve_missing_b from line 107 on
missing_b_roots(sqrt_disc) ==
    TwoRoots(sqrt_disc, FNeg(sqrt_disc), "Direct root (b=0)")

\* _solve_missing_b from line 104 on
missing_b_from(discriminant) ==
    IF IsErr(discriminant) THEN Raise(discriminant.k)
    ELSE IF FLt(discriminant, FZero)
    THEN Solution(<<>>, "No real solutions", None, None)
    ELSE missing_b_roots(FSqrt(discriminant))

\* _solve_missing_b(equation)
solve_missing_b(equation) ==
    missing_b_from(FDiv(FNeg(equation.c), equation.a))

\* _solve_standard_formula from line 120 on
standard_roots(equation, sqrt_disc, denominator) ==
    TwoRoots(FDiv(FAdd(FNeg(equation.b), sqrt_disc), denominator),
             FDiv(FSub(FNeg(equation.b), sqrt_disc), denominator),
             "Quadratic formula")

\* _solve_standard_formula from line 114 on
standard_from(equation, discriminant) ==
    IF IsErr(discriminant) THEN Raise(discriminant.k)
    ELSE IF FLt(discriminant, FZero)
    THEN Solution(<<>>, "No real solutions", None, None)
    ELSE standard_roots(equation, FSqrt(discriminant), FMul(Two, equation.a))

\* _solve_standard_formula(equation)
solve_standard_formula(equation) ==
    standard_from(equation,
                  FSub(FPow(equation.b, 2),
                       FMul(FMul(Four, equation.a), equation.c)))

\* _compute_catalan_parameter(equation)
compute_catalan_parameter(equation) ==
    FDiv(FMul(equation.a, equation.c), FPow(equation.b, 2))

\* _compute_exact_u from line 135 on
exact_u_from(A, discriminant) ==
    IF IsErr(discriminant) THEN discriminant
    ELSE IF FLt(discriminant, FZero) THEN Raised("ValueError")
    ELSE FDiv(FSub(One, FSqrt(discriminant)), FMul(Two, A))

\* _compute_exact_u(A)
compute_exact_u(A) ==
    IF is_zero(A) THEN One
    ELSE exact_u_from(A, FSub(One, FMul(Four, A)))

\* series_term starting the series at its second term
series_term_skip_first(A, n) ==
    FMul(FFromInt(catalan_number(n + 1)), FPow(A, n + 1))

\* The term C(n) * A^n that pass n of the loop of _compute_catalan_series adds
series_term(A, n) == FMul(FFromInt(CatalanNumbers[n]), FPow(A, n))

\* The except clause of _solve_catalan_method: a ValueError falls back to the
\* standard formula, any other exception leaves solve
catalan_except(equation, exc) ==
    IF exc = "ValueError" THEN solve_standard_formula(equation) ELSE Raise(exc)

\* _solve_catalan_method returning its Solution without the error
catalan_solution_no_error(equation, x1, x2, terms_used, final_error) ==
    IF IsErr(x1) THEN catalan_except(equation, x1.k)
    ELSE IF IsErr(x2) THEN catalan_except(equation, x2.k)
    ELSE Solution(<<x1, x2>>, "Catalan series", terms_used, None)

\* _solve_catalan_method from line 191 on
catalan_solution(equation, x1, x2, terms_used, final_error) ==
    IF IsErr(x1) THEN catalan_except(equation, x1.k)
    ELSE IF IsErr(x2) THEN catalan_except(equation, x2.k)
    ELSE IF IsErr(final_error) THEN catalan_except(equation, final_error.k)
    ELSE Solution(<<x1, x2>>, "Catalan series", terms_used, final_error)

\* _solve_catalan_method from line 186 on
catalan_second_root(equation, u_exact, u_series, terms_used, x1) ==
    catalan_solution(equation, x1, FDiv(equation.c, FMul(equation.a, x1)),
                     terms_used, FAbs(FSub(u_series, u_exact)))

\* _solve_catalan_method from line 183 on, _compute_catalan_series having
\* returned (u_series, terms_used)
catalan_roots(equation, u_exact, u_series, terms_used) ==
    catalan_second_root(equation, u_exact, u_series, terms_used,
                        FMul(FNeg(FDiv(equation.c, equation.b)), u_series))

\* ------------------------------------------------------------------------
\* The calls the model makes
\* ------------------------------------------------------------------------

F0 == FZero

\* The numbers written in a call: the decimal k e d, the whole number k and
\* k * 2.0**j
Dec(k, d) == <<k, 10, d>>
Num(k) == <<k, 10, 0>>
Bin(k, j) == <<k, 2, j>>

\* The float of magnitude k such a number denotes
FloatOfMagnitude(s, k, radix, d) ==
    IF radix = 10 THEN FLit(s, k, d) ELSE FRound(s, NFromSmall(k), d, FALSE)

\* The float such a number denotes
FloatOf(x) ==
    FloatOfMagnitude(IF x[1] < 0 THEN -1 ELSE 1, IF x[1] < 0 THEN -x[1] ELSE x[1],
                     x[2], x[3])

\* Coefficients: zero; 5e-16 (below ZERO_THRESHOLD); 1e-15 (ZERO_THRESHOLD
\* itself); small integers of both signs
Coefficients ==
    {Num(0), Dec(5, -16), Dec(1, -15), Num(1), Num(-1), Num(2)}

Eq(a, b, c) == [a |-> a, b |-> b, c |-> c]

\* QuadraticEquation(a, b, c) for three decimals
EqOf(t) == Eq(FloatOf(t[1]), FloatOf(t[2]), FloatOf(t[3]))

\* The equations of the tests, the examples and the spec's scenarios, and
\* equations at the edges of the float range
NamedEquations ==
    { <<Num(1), Num(4), Num(1)>>,   <<Num(2), Num(6), Num(1)>>,
      <<Num(1), Num(2), Num(2)>>,   <<Num(1), Num(0), Num(-4)>>,
      <<Num(1), Num(5), Num(0)>>,   <<Num(0), Num(3), Num(-6)>>,
      <<Num(0), Num(0), Num(5)>>,   <<Num(0), Num(3), Num(6)>>,
      <<Num(1), Num(-4), Num(4)>>,  <<Num(1), Num(1), Num(1)>>,
      <<Num(2), Num(-7), Num(3)>>,  <<Num(1), Num(0), Num(-9)>>,
      <<Num(3), Num(12), Num(0)>>,  <<Num(1), Num(8), Num(1)>>,
      <<Num(4), Num(8), Num(1)>>,   <<Num(1), Num(2), Dec(24, -2)>>,
      <<Num(1), Dec(25, -1), Num(1)>>,
      <<Dec(1, -14), Num(1), Num(1)>>,
      <<Dec(1, 6), Dec(2, 6), Dec(1, 6)>>,
      <<Num(1), Bin(1, 600), Num(1)>>,
      <<Bin(1, 600), Num(1), Bin(-1, 600)>>,
      <<Bin(1, 600), Num(1), Bin(1, 600)>>,
      <<Dec(1, -15), Num(0), Bin(-1, 1010)>>,
      <<Num(0), Dec(1, -15), Bin(1, 1010)>> }

Equations ==
    NamedEquations \cup (Coefficients \X Coefficients \X Coefficients)

\* Tolerances: the default 1e-10; and, for the equations of the convergence
\* tests, 1e-12, 1e-6 and 0
Tolerances == {Dec(1, -12), Dec(1, -6), Num(0)}

ToleranceEquations ==
    { <<Num(1), Num(8), Num(1)>>, <<Num(1), Num(4), Num(1)>>,
      <<Num(4), Num(8), Num(1)>>, <<Num(1), Num(2), Dec(24, -2)>>,
      <<Num(1), Num(2), Num(1)>>, <<Num(1), Num(2), Num(0)>>,
      <<Num(1), Num(1), Num(1)>>, <<Dec(1, -15), Num(2), Num(1)>> }

Call(eqn, tol) == [equation |-> eqn, tolerance |-> tol]

\* The calls of solve the model makes
Calls ==
    {Call(EqOf(t), DEFAULT_TOLERANCE) : t \in Equations}
    \cup {Call(EqOf(t), FloatOf(tol)) : t \in ToleranceEquations, tol \in Tolerances}

VARIABLES
    pc,         \* "idle", "series" (in the loop of _compute_catalan_series), "done"
    equation,   \* the argument of solve
    tolerance,  \* self.tolerance
    route,      \* the helper solve dispatched to
    A,          \* _compute_catalan_parameter(equation)
    u_exact,    \* _compute_exact_u(A)
    u_series,   \* the partial sum
    n,          \* the loop index
    added,      \* how many terms were added to u_series
    solution,   \* what solve returned or raised
    cpc,        \* catalan_number: "idle", "loop" (in its for loop), "done"
    cn,         \* its argument n
    ci,         \* its loop index i
    cresult,    \* its result
    cexact,     \* whether every floor division so far left no remainder
    prev        \* the caller's record of the call before this one, if any

svars == <<pc, equation, tolerance, route, A, u_exact, u_series, n, added, solution>>
cvars == <<cpc, cn, ci, cresult, cexact>>
vars == <<svars, cvars, prev>>

NoEquation == Eq(F0, F0, F0)

\* No call was made before this one
NoPrev == [A |-> F0, terms_used |-> 0]

Init ==
    /\ pc = "idle"
    /\ equation = NoEquation
    /\ tolerance = DEFAULT_TOLERANCE
    /\ route = None
    /\ A = F0
    /\ u_exact = F0
    /\ u_series = F0
    /\ n = 0
    /\ added = 0
    /\ solution = Raise(None)
    /\ cpc = "idle"
    /\ cn = 0
    /\ ci = 0
    /\ cresult = <<>>
    /\ cexact = TRUE
    /\ prev = NoPrev

\* dispatch_general testing A, not |A|, against the threshold
dispatch_general_signed(a0) ==
    IF IsErr(a0) THEN "_compute_catalan_parameter"
    ELSE IF FLe(a0, CATALAN_THRESHOLD) THEN "_solve_catalan_method"
    ELSE "_solve_standard_formula"

\* The branch solve takes once A is computed (lines 233-236)
dispatch_general(a0) ==
    IF IsErr(a0) THEN "_compute_catalan_parameter"
    ELSE IF FLe(FAbs(a0), CATALAN_THRESHOLD) THEN "_solve_catalan_method"
    ELSE "_solve_standard_formula"

\* Dispatch with the b test ahead of the c test
DispatchBFirst(eqn) ==
    IF is_zero(eqn.a) THEN "_solve_linear"
    ELSE IF is_zero(eqn.b) THEN "_solve_missing_b"
    ELSE IF is_zero(eqn.c) THEN "_solve_missing_c"
    ELSE dispatch_general(compute_catalan_parameter(eqn))

\* The branch solve takes (lines 217-236)
Dispatch(eqn) ==
    IF is_zero(eqn.a) THEN "_solve_linear"
    ELSE IF is_zero(eqn.c) THEN "_solve_missing_c"
    ELSE IF is_zero(eqn.b) THEN "_solve_missing_b"
    ELSE dispatch_general(compute_catalan_parameter(eqn))

Return(sol) ==
    /\ pc' = "done"
    /\ solution' = sol

\* _solve_catalan_method from line 180 on: the loop is entered, unless
\* _compute_exact_u raised
CatalanTry(eqn, ue) ==
    IF IsErr(ue)
    THEN /\ Return(catalan_except(eqn, ue.k))
         /\ UNCHANGED <<u_exact, u_series, n, added>>
    ELSE /\ pc' = "series"
         /\ u_exact' = ue
         /\ u_series' = F0
         /\ n' = 0
         /\ added' = 0
         /\ UNCHANGED solution

\* _solve_catalan_method(equation) up to the loop, a1 being its own A
CatalanMethod(eqn, a1) ==
    /\ A' = a1
    /\ IF IsErr(a1)
       THEN Return(Raise(a1.k)) /\ UNCHANGED <<u_exact, u_series, n, added>>
       ELSE IF FGt(FAbs(a1), CATALAN_THRESHOLD)
       THEN /\ Return(solve_standard_formula(eqn))
            /\ UNCHANGED <<u_exact, u_series, n, added>>
       ELSE CatalanTry(eqn, compute_exact_u(a1))

\* solve from the branch r on
SolveBranch(eqn, r) ==
    /\ route' = r
    /\ IF r = "_solve_catalan_method"
       THEN CatalanMethod(eqn, compute_catalan_parameter(eqn))
       ELSE /\ Return(CASE r = "_solve_linear" -> solve_linear(eqn)
                        [] r = "_solve_missing_c" -> solve_missing_c(eqn)
                        [] r = "_solve_missing_b" -> solve_missing_b(eqn)
                        [] r = "_solve_standard_formula" -> solve_standard_formula(eqn)
                        [] OTHER -> Raise(compute_catalan_parameter(eqn).k))
            /\ A' = (IF r = "_solve_standard_formula"
                     THEN compute_catalan_parameter(eqn) ELSE F0)
            /\ UNCHANGED <<u_exact, u_series, n, added>>

\* solve(equation) on a solver built with CatalanSolver(tolerance=tol), up to
\* the first pass of the loop of _compute_catalan_series, or to its end when
\* that loop is not reached
Solve(eqn, tol) ==
    /\ pc = "idle"
    /\ equation' = eqn
    /\ tolerance' = tol
    /\ SolveBranch(eqn, Dispatch(eqn))
    /\ UNCHANGED cvars
    /\ UNCHANGED prev

\* The end of _solve_catalan_method after the loop returned (u, terms_used)
Finish(u, terms_used) ==
    Return(catalan_roots(equation, u_exact, u, terms_used))

\* SeriesCheck returning the index n of the last term as the term count
SeriesCheckIndex(u, error) ==
    IF IsErr(error)
    THEN /\ Return(catalan_except(equation, error.k))
         /\ UNCHANGED <<u_series, n, added>>
    ELSE /\ u_series' = u
         /\ added' = added + 1
         /\ IF FLt(error, tolerance)
            THEN Finish(u, n) /\ n' = n
            ELSE n' = n + 1 /\ UNCHANGED <<pc, solution>>

\* Lines 157-161 of a pass that made the partial sum u and its error
SeriesCheck(u, error) ==
    IF IsErr(error)
    THEN /\ Return(catalan_except(equation, error.k))
         /\ UNCHANGED <<u_series, n, added>>
    ELSE /\ u_series' = u
         /\ added' = added + 1
         /\ IF FLt(error, tolerance)
            THEN Finish(u, n + 1) /\ n' = n
            ELSE n' = n + 1 /\ UNCHANGED <<pc, solution>>

\* SeriesAdd testing the size of the term just added, not the distance to
\* u_exact
SeriesAddTermSize(u) == SeriesCheck(u, FAbs(FSub(u, u_series)))

\* Line 157 of a pass that made the partial sum u
SeriesAdd(u) == SeriesCheck(u, FAbs(FSub(u, u_exact)))

\* One pass of the while loop of _compute_catalan_series (lines 150-161),
\* and the rest of solve when that pass returns
SeriesPass ==
    /\ pc = "series"
    /\ n < MAX_TERMS
    /\ SeriesAdd(FAdd(u_series, series_term(A, n)))
    /\ UNCHANGED <<equation, tolerance, route, A, u_exact>>
    /\ UNCHANGED cvars
    /\ UNCHANGED prev

\* The loop condition fails (line 150): return u_series, MAX_TERMS (line 164),
\* and the rest of solve
SeriesExhausted ==
    /\ pc = "series"
    /\ ~(n < MAX_TERMS)
    /\ Finish(u_series, MAX_TERMS)
    /\ UNCHANGED <<equation, tolerance, route, A, u_exact, u_series, n, added>>
    /\ UNCHANGED cvars
    /\ UNCHANGED prev

Next ==
    \/ \E call \in Calls : Solve(call.equation, call.tolerance)
    \/ SeriesPass
    \/ SeriesExhausted

Spec == Init /\ [][Next]_vars

\* ------------------------------------------------------------------------
\* Two calls of solve on one solver, one after the other
\* ------------------------------------------------------------------------

\* Equations the series method solves: A = 1/64, -1/64, 1/16 and 1e-14
PairEquations ==
    { <<Num(1), Num(8), Num(1)>>, <<Num(1), Num(8), Num(-1)>>,
      <<Num(1), Num(4), Num(1)>>, <<Dec(1, -14), Num(1), Num(1)>> }

\* The caller keeps A and terms_used of the series result solve returned, and
\* goes on to its next call
KeepResult ==
    /\ pc = "done"
    /\ prev = NoPrev
    /\ solution.raised = None
    /\ solution.method_used = "Catalan series"
    /\ prev' = [A |-> A, terms_used |-> solution.terms_used]
    /\ pc' = "idle"
    /\ UNCHANGED <<equation, tolerance, route, A, u_exact, u_series, n, added, solution>>
    /\ UNCHANGED cvars

PairNext ==
    \/ \E t \in PairEquations : Solve(EqOf(t), tolerance)
    \/ SeriesPass
    \/ SeriesExhausted
    \/ KeepResult

PairSpec == Init /\ [][PairNext]_vars

\* ------------------------------------------------------------------------
\* catalan_number(n), pass by pass, for n in 0..MaxN
\* ------------------------------------------------------------------------

\* The largest argument catalan_number is called with
MaxN == 20

\* Lines 68-72: n = 0 returns 1 at once, any other n sets result = 1
CatalanCall(k) ==
    /\ cpc = "idle"
    /\ cn' = k
    /\ cresult' = <<1>>
    /\ cpc' = (IF k = 0 THEN "done" ELSE "loop")
    /\ UNCHANGED <<ci, cexact>>
    /\ UNCHANGED svars
    /\ UNCHANGED prev

\* The floor division of lines 74 and 76, qr being its quotient and remainder
CatalanDivided(qr) ==
    /\ cresult' = qr.q
    /\ cexact' = (cexact /\ qr.r = 0)

\* Lines 73-74: one pass of the for loop
CatalanPass ==
    /\ cpc = "loop"
    /\ ci < cn
    /\ CatalanDivided(CatalanLoopBody(cresult, cn, ci))
    /\ ci' = ci + 1
    /\ UNCHANGED <<cpc, cn>>
    /\ UNCHANGED svars
    /\ UNCHANGED prev

\* Line 76: return result // (n + 1)
CatalanReturn ==
    /\ cpc = "loop"
    /\ ~(ci < cn)
    /\ CatalanDivided(NDivSmall(cresult, cn + 1))
    /\ cpc' = "done"
    /\ UNCHANGED <<cn, ci>>
    /\ UNCHANGED svars
    /\ UNCHANGED prev

CatalanNext ==
    \/ \E k \in 0..MaxN : CatalanCall(k)
    \/ CatalanPass
    \/ CatalanReturn

CatalanSpec == Init /\ [][CatalanNext]_vars

\* ------------------------------------------------------------------------
\* Properties of solve
\* ------------------------------------------------------------------------

\* x is numerically zero: |x| < 1e-15
NearZero(x) == FLt(FAbs(x), FLit(1, 1, -15))

\* None of a, b, c is numerically zero
GeneralCase(eqn) == ~NearZero(eqn.a) /\ ~NearZero(eqn.b) /\ ~NearZero(eqn.c)

\* The case of an equation, by first match
CaseOf(eqn) ==
    IF NearZero(eqn.a) THEN "linear"
    ELSE IF NearZero(eqn.c) THEN "missing c"
    ELSE IF NearZero(eqn.b) THEN "missing b"
    ELSE "general"

\* The helpers solve may dispatch to in each case
CaseRoutes(case) ==
    CASE case = "linear" -> {"_solve_linear"}
      [] case = "missing c" -> {"_solve_missing_c"}
      [] case = "missing b" -> {"_solve_missing_b"}
      [] OTHER -> {"_compute_catalan_parameter", "_solve_catalan_method",
                   "_solve_standard_formula"}

\* The method tags of each case
CaseTags(case) ==
    CASE case = "linear" -> {"Linear", "Infinite solutions", "No solution"}
      [] case = "missing c" -> {"Factorization (c=0)"}
      [] case = "missing b" -> {"Direct root (b=0)", "No real solutions"}
      [] OTHER -> {"Catalan series", "Quadratic formula", "No real solutions"}

Done == pc = "done"
Returned == pc = "done" /\ solution.raised = None

\* C1: solve routes every equation to exactly one case, the first that
\* matches of a ~ 0, c ~ 0, b ~ 0, general. So a ~ 0 with c ~ 0 and b not ~ 0
\* is tagged 'Linear', a not ~ 0 with c ~ 0 and b ~ 0 is tagged
\* 'Factorization (c=0)', and the series loop and the tags 'Catalan series'
\* and 'Quadratic formula' occur only when none of a, b, c is ~ 0.
C1_FirstMatchDispatch ==
    pc # "idle" =>
        /\ route \in CaseRoutes(CaseOf(equation))
        /\ Returned => solution.method_used \in CaseTags(CaseOf(equation))
        /\ (Done /\ NearZero(equation.a) /\ NearZero(equation.c) /\ ~NearZero(equation.b))
               => solution.method_used = "Linear"
        /\ (Done /\ ~NearZero(equation.a) /\ NearZero(equation.c) /\ NearZero(equation.b))
               => solution.method_used = "Factorization (c=0)"
        /\ (pc = "series" \/ solution.method_used \in {"Catalan series", "Quadratic formula"})
               => GeneralCase(equation)

\* C1's case: an equation with c ~ 0 and b ~ 0 (a not ~ 0) was solved
C1_Witness ==
    /\ Done
    /\ ~NearZero(equation.a) /\ NearZero(equation.c) /\ NearZero(equation.b)
    /\ solution.method_used = "Factorization (c=0)"

\* A = ac/b^2 and b^2 - 4ac as numbers
ParameterA(eqn) == FDiv(FMul(eqn.a, eqn.c), FMul(eqn.b, eqn.b))
Discriminant(eqn) ==
    FSub(FMul(eqn.b, eqn.b), FMul(FMul(Four, eqn.a), eqn.c))

\* (-b + sign * sqrt(b^2 - 4ac)) / (2a)
FormulaRoot(eqn, sign) ==
    FDiv(FAdd(FNeg(eqn.b), IF sign > 0 THEN FSqrt(Discriminant(eqn))
                                      ELSE FNeg(FSqrt(Discriminant(eqn)))),
         FMul(Two, eqn.a))

\* C2: in the general case, |A| <= 0.25 gives the tag 'Catalan series';
\* |A| > 0.25 gives 'No real solutions' and no roots when b^2 - 4ac < 0, and
\* 'Quadratic formula' with the two roots (-b +- sqrt(b^2 - 4ac)) / (2a)
\* otherwise.
C2_GeneralCaseTags ==
    (Done /\ GeneralCase(equation)) =>
        IF FLe(FAbs(ParameterA(equation)), FLit(1, 25, -2))
        THEN solution.method_used = "Catalan series"
        ELSE IF FLt(Discriminant(equation), FZero)
        THEN solution.method_used = "No real solutions" /\ solution.roots = <<>>
        ELSE /\ solution.method_used = "Quadratic formula"
             /\ solution.roots = <<FormulaRoot(equation, 1), FormulaRoot(equation, -1)>>

\* C3: a general-case equation with |A| > 0.25 and b^2 - 4ac < 0, such as
\* (1, 2, 2), is tagged 'Quadratic formula' and has no roots.
C3_NegativeDiscriminantTag ==
    (/\ Done
     /\ GeneralCase(equation)
     /\ FGt(FAbs(ParameterA(equation)), FLit(1, 25, -2))
     /\ FLt(Discriminant(equation), FZero))
        => solution.method_used = "Quadratic formula" /\ solution.roots = <<>>

\* C4: a result tagged 'Catalan series' whose terms_used is below MAX_TERMS
\* reports an error below the solver's tolerance.
C4_ConvergedErrorBelowTolerance ==
    (/\ Returned
     /\ solution.method_used = "Catalan series"
     /\ solution.terms_used < MAX_TERMS)
        => FLt(solution.error, tolerance)

\* C4's case: the series stopped after more than one but fewer than
\* MAX_TERMS terms
C4_Witness ==
    /\ Returned
    /\ solution.method_used = "Catalan series"
    /\ solution.terms_used > 1
    /\ solution.terms_used < MAX_TERMS

\* |a x^2 + b x + c|
Residual(eqn, x) ==
    FAbs(FAdd(FAdd(FMul(eqn.a, FMul(x, x)), FMul(eqn.b, x)), eqn.c))

FMax(x, y) == IF FGt(y, x) THEN y ELSE x

\* max(|a|, |b|, |c|) when that is above 1, and 1 otherwise
ResidualScale(eqn) ==
    FMax(One, FMax(FAbs(eqn.a), FMax(FAbs(eqn.b), FAbs(eqn.c))))

\* C5: both roots x of a result of the series method have a residual
\* |a x^2 + b x + c| below 1e-8, relative to max(|a|, |b|, |c|) when the
\* coefficients are large (for a solver with the default tolerance).
C5_SeriesResidual ==
    (Returned /\ solution.method_used = "Catalan series" /\ tolerance = DEFAULT_TOLERANCE) =>
        \A i \in 1..Len(solution.roots) :
            FLt(Residual(equation, solution.roots[i]),
                FMul(FLit(1, 1, -8), ResidualScale(equation)))

\* C7: solve ends by returning a Solution, never by a raised error.
C7_NeverRaises == Done => solution.raised = None

\* C8: with a ~ 0, solve returns the one root -c/b tagged 'Linear' when b is
\* not ~ 0, and no root otherwise, tagged 'Infinite solutions' when c ~ 0 and
\* 'No solution' when not.
C8_LinearCase ==
    (Done /\ NearZero(equation.a)) =>
        /\ solution.raised = None
        /\ IF ~NearZero(equation.b)
           THEN /\ solution.method_used = "Linear"
                /\ solution.roots = <<FDiv(FNeg(equation.c), equation.b)>>
           ELSE /\ solution.roots = <<>>
                /\ solution.method_used =
                       (IF NearZero(equation.c) THEN "Infinite solutions" ELSE "No solution")

\* C8's case: a linear equation with c not ~ 0 was solved
C8_Witness ==
    /\ Returned
    /\ NearZero(equation.a) /\ ~NearZero(equation.b) /\ ~NearZero(equation.c)
    /\ Len(solution.roots) = 1

\* C9: with a not ~ 0 and c ~ 0, solve returns the two roots 0 and -b/a in
\* that order, tagged 'Factorization (c=0)', also when b ~ 0 makes them equal.
C9_MissingCCase ==
    (Done /\ ~NearZero(equation.a) /\ NearZero(equation.c)) =>
        /\ solution.raised = None
        /\ solution.method_used = "Factorization (c=0)"
        /\ solution.roots = <<FZero, FDiv(FNeg(equation.b), equation.a)>>

\* C9's case: an equation with b = 0 and c ~ 0 was solved, so both roots
\* are 0
C9_Witness ==
    /\ Returned
    /\ ~NearZero(equation.a) /\ NearZero(equation.c) /\ equation.b = FZero
    /\ Len(solution.roots) = 2
    /\ FCmp(solution.roots[1], solution.roots[2]) = 0

\* d = -c/a
DirectD(eqn) == FDiv(FNeg(eqn.c), eqn.a)

\* C10: with a and c not ~ 0 and b ~ 0, and d = -c/a, solve returns no root
\* tagged 'No real solutions' when d < 0, and otherwise the roots sqrt(d) and
\* -sqrt(d) in that order, tagged 'Direct root (b=0)'.
C10_MissingBCase ==
    (Done /\ ~NearZero(equation.a) /\ ~NearZero(equation.c) /\ NearZero(equation.b)) =>
        /\ solution.raised = None
        /\ IF FLt(DirectD(equation), FZero)
           THEN solution.roots = <<>> /\ solution.method_used = "No real solutions"
           ELSE /\ solution.method_used = "Direct root (b=0)"
                /\ solution.roots = <<FSqrt(DirectD(equation)), FNeg(FSqrt(DirectD(equation)))>>

\* C10's case: an equation with b ~ 0 and d > 0 was solved
C10_Witness ==
    /\ Returned
    /\ ~NearZero(equation.a) /\ ~NearZero(equation.c) /\ NearZero(equation.b)
    /\ Len(solution.roots) = 2
    /\ FGt(solution.roots[1], FZero)

\* The closed set of method tags
MethodTags ==
    {"Linear", "Infinite solutions", "No solution", "Factorization (c=0)",
     "Direct root (b=0)", "No real solutions", "Quadratic formula",
     "Catalan series"}

\* The number of roots that goes with each tag
RootCount(tag) ==
    CASE tag = "Linear" -> 1
      [] tag \in {"Infinite solutions", "No solution", "No real solutions"} -> 0
      [] OTHER -> 2

\* An optional field is absent
IsNone(field) == ToString(field) = ToString(None)

\* C11: every Solution solve returns has one of the eight method tags, has
\* terms_used and error both present if its tag is 'Catalan series' and both
\* absent if not, and has 1 root for 'Linear', 0 for 'Infinite solutions',
\* 'No solution' and 'No real solutions', and 2 for the other four tags.
C11_SolutionShape ==
    Returned =>
        /\ solution.method_used \in MethodTags
        /\ IF solution.method_used = "Catalan series"
           THEN ~IsNone(solution.terms_used) /\ ~IsNone(solution.error)
           ELSE IsNone(solution.terms_used) /\ IsNone(solution.error)
        /\ Len(solution.roots) = RootCount(solution.method_used)

\* C11's case: the series method returned its two roots with terms_used and
\* error
C11_Witness ==
    /\ Returned
    /\ solution.method_used = "Catalan series"
    /\ Len(solution.roots) = 2
    /\ ~IsNone(solution.terms_used) /\ ~IsNone(solution.error)

\* In the loop after n passes n terms were added, and n <= MAX_TERMS (every
\* step of the loop adds a term and either returns or increases n); a
\* result of the series method reports as terms_used the number of terms
\* added, which is in 1..MAX_TERMS: n + 1 when the tolerance test succeeded
\* at index n, and MAX_TERMS otherwise, with error the last residual
\* |u_series - u_exact|
SeriesTermCount ==
    /\ pc = "series" => (added = n /\ n <= MAX_TERMS)
    /\ (Returned /\ solution.method_used = "Catalan series") =>
           /\ solution.terms_used \in 1..MAX_TERMS
           /\ solution.terms_used = added
           /\ solution.error = FAbs(FSub(u_series, u_exact))
           /\ IF FLt(solution.error, tolerance)
              THEN solution.terms_used = n + 1
              ELSE solution.terms_used = MAX_TERMS /\ n = MAX_TERMS

\* C12: for every A and tolerance (tolerance <= 0 and |A| = 0.25 included)
\* the series loop ends after adding at most MAX_TERMS = 100 terms, and
\* terms_used is in 1..MAX_TERMS and is the number of terms added: n + 1 when
\* the tolerance test first succeeds at index n, and MAX_TERMS, with the last
\* residual as error, when it never succeeds.
C12_SeriesEndsWithinMaxTerms ==
    /\ []SeriesTermCount
    /\ [][pc = "series" => (pc' = "done" \/ (n' = n + 1 /\ added' = added + 1))]_vars

\* C12's case: with tolerance 0 the test never succeeded and the loop ended
\* at the cap
C12_Witness ==
    /\ Returned
    /\ solution.method_used = "Catalan series"
    /\ FCmp(tolerance, FZero) = 0
    /\ solution.terms_used = MAX_TERMS
    /\ added = MAX_TERMS

\* The double root -b/(2a)
DoubleRoot(eqn) == FDiv(FNeg(eqn.b), FMul(Two, eqn.a))

\* |x - y| < 1e-10
Within1e10(x, y) == FLt(FAbs(FSub(x, y)), FLit(1, 1, -10))

\* C13: for an equation with a not ~ 0 and b^2 = 4ac, such as (1, -4, 4)
\* with the double root 2, solve returns exactly two roots, each within 1e-10
\* of -b/(2a).
C13_DoubleRootWithinTolerance ==
    (Done /\ ~NearZero(equation.a) /\ FCmp(Discriminant(equation), FZero) = 0) =>
        /\ Returned
        /\ Len(solution.roots) = 2
        /\ \A i \in 1..Len(solution.roots) :
               Within1e10(solution.roots[i], DoubleRoot(equation))

\* a is very small but not numerically zero: 1e-15 <= |a| <= 1e-14
VerySmallLeading(eqn) ==
    ~NearZero(eqn.a) /\ FLe(FAbs(eqn.a), FLit(1, 1, -14))

\* C14: an equation whose leading coefficient is very small but at or above
\* ZERO_THRESHOLD, such as a = 1e-14 with b = 1 and c = 1, is treated as
\* linear: solve returns the tag 'Linear'.
C14_VerySmallLeadingIsLinear ==
    (Done /\ VerySmallLeading(equation) /\ ~NearZero(equation.b) /\ ~NearZero(equation.c)) =>
        Returned /\ solution.method_used = "Linear"

\* C15: a general-case equation with |A| < 0.1 (such as A = 1/64, 1/16 or
\* 0.06) solved with tolerance 1e-12 gets the tag 'Catalan series', with
\* terms_used <= 10 and error < tolerance.
C15_FastConvergence ==
    (/\ Done
     /\ GeneralCase(equation)
     /\ FLt(FAbs(ParameterA(equation)), FLit(1, 1, -1))
     /\ tolerance = FLit(1, 1, -12)) =>
        /\ Returned
        /\ solution.method_used = "Catalan series"
        /\ solution.terms_used <= 10
        /\ FLt(solution.error, tolerance)

\* C16: smaller |A| converges in fewer terms: of two general-case equations
\* with |A1| <= |A2| <= 0.25, of either sign, solved with the same tolerance,
\* the first has terms_used <= that of the second.
C16_FewerTermsForSmallerA ==
    (Returned /\ prev # NoPrev /\ solution.method_used = "Catalan series") =>
        /\ FLe(FAbs(prev.A), FAbs(A)) => prev.terms_used <= solution.terms_used
        /\ FLe(FAbs(A), FAbs(prev.A)) => solution.terms_used <= prev.terms_used

\* solve called _solve_catalan_method
SeriesBranch == route = "_solve_catalan_method"

\* C17: whenever solve enters the series branch, |A| <= 0.25 and so
\* 1 - 4A >= 0: _compute_exact_u does not raise, the fallback of the except
\* clause to the standard formula does not fire, and the second test of
\* |A| > 0.25 in _solve_catalan_method is false, so the branch ends with the
\* tag 'Catalan series'.
C17_ExactReferenceNeverFails ==
    SeriesBranch =>
        /\ FLe(FAbs(A), FLit(1, 25, -2))
        /\ ~FLt(FSub(One, FMul(Four, A)), FZero)
        /\ ~IsErr(compute_exact_u(A))
        /\ u_exact = compute_exact_u(A)
        /\ Done => (Returned /\ solution.method_used = "Catalan series")

\* C17's case: the series branch was entered at the boundary A = 0.25, where
\* 1 - 4A = 0, and returned
C17_Witness ==
    /\ SeriesBranch
    /\ Returned
    /\ FCmp(A, FLit(1, 25, -2)) = 0
    /\ FCmp(FSub(One, FMul(Four, A)), FZero) = 0

\* C18: for |A| <= 0.25 of either sign, after each of the 1 to MAX_TERMS
\* terms the partial sum S is positive and bounded away from 0 (it is at
\* least 0.75), so x1 = -(c/b) S is not zero and the division
\* x2 = c / (a x1) has no zero divisor.
C18_PartialSumAwayFromZero ==
    /\ (SeriesBranch /\ added >= 1) => FLe(FLit(1, 75, -2), u_series)
    /\ (SeriesBranch /\ Done) =>
           /\ Returned
           /\ solution.roots[1] = FMul(FNeg(FDiv(equation.c, equation.b)), u_series)
           /\ FCmp(solution.roots[1], FZero) # 0
           /\ FCmp(FMul(equation.a, solution.roots[1]), FZero) # 0
           /\ IsFin(solution.roots[2])

\* C18's case: with A = -0.25 the loop stopped at MAX_TERMS terms and the
\* two roots were computed
C18_Witness ==
    /\ SeriesBranch
    /\ Returned
    /\ FCmp(A, FLit(-1, 25, -2)) = 0
    /\ added = MAX_TERMS
    /\ Len(solution.roots) = 2

\* C20: for a general-case equation with |A| < ZERO_THRESHOLD and a
\* tolerance > 0, u_exact = 1, the series stops after one term
\* (terms_used = 1, S = 1, error = 0), and the roots are x1 = -c/b and
\* x2 = c / (a x1) = -b/a, tagged 'Catalan series'.
C20_NearZeroParameter ==
    (/\ Done
     /\ GeneralCase(equation)
     /\ FLt(FAbs(ParameterA(equation)), FLit(1, 1, -15))
     /\ FGt(tolerance, FZero)) =>
        /\ Returned
        /\ solution.method_used = "Catalan series"
        /\ u_exact = One
        /\ solution.terms_used = 1
        /\ u_series = One
        /\ FCmp(solution.error, FZero) = 0
        /\ solution.roots[1] = FDiv(FNeg(equation.c), equation.b)
        /\ solution.roots[2] = FDiv(equation.c, FMul(equation.a, solution.roots[1]))
        /\ FCmp(solution.roots[2], FDiv(FNeg(equation.b), equation.a)) = 0

\* ------------------------------------------------------------------------
\* Properties of catalan_number
\* ------------------------------------------------------------------------

\* lo * (lo + 1) * ... * hi (1 when lo > hi)
RECURSIVE ProductOf(_, _)
ProductOf(lo, hi) ==
    IF lo > hi THEN <<1>>
    ELSE IF lo = hi THEN NFromSmall(lo)
    ELSE NMul(ProductOf(lo, (lo + hi) \div 2), ProductOf((lo + hi) \div 2 + 1, hi))

\* k!
Factorial(k) == ProductOf(1, k)

\* The Catalan numbers C(0) .. C(15)
KnownCatalan ==
    <<1, 1, 2, 5, 14, 42, 132, 429, 1430, 4862, 16796, 58786, 208012, 742900,
      2674440, 9694845>>

CatalanDone == cpc = "done"

\* C6: catalan_number(n) returns exactly C(n) = (2n)! / ((n+1)! n!), which for
\* n = 0..15 is 1, 1, 2, 5, 14, 42, 132, 429, 1430, 4862, 16796, 58786,
\* 208012, 742900, 2674440, 9694845.
C6_CatalanNumberExact ==
    CatalanDone =>
        /\ cresult = catalan_number(cn)
        /\ NMul(cresult, NMul(Factorial(cn + 1), Factorial(cn))) = Factorial(2 * cn)
        /\ cn < Len(KnownCatalan) => cresult = NFromSmall(KnownCatalan[cn + 1])

\* C6's case: catalan_number(15) returned
C6_Witness == CatalanDone /\ cn = 15 /\ cresult = NFromSmall(9694845)

\* result is the binomial coefficient C(m, k): result * k! * (m - k)! = m!
IsBinomial(result, m, k) ==
    NMul(result, NMul(Factorial(k), Factorial(m - k))) = Factorial(m)

\* C19: in catalan_number(n), n >= 1, every floor division is exact: before
\* the division at loop index i the product result * (2n - i) is divisible by
\* i + 1, after that step result = C(2n, i + 1), and after the loop
\* result = C(2n, n) is divisible by n + 1; no remainder is ever dropped.
C19_EveryDivisionExact ==
    /\ cexact
    /\ cpc = "loop" =>
           /\ IsBinomial(cresult, 2 * cn, ci)
           /\ IF ci < cn
              THEN NDivSmall(NMulSmall(cresult, 2 * cn - ci), ci + 1).r = 0
              ELSE NDivSmall(cresult, cn + 1).r = 0

\* C19's case: the loop of catalan_number(15) made its 15 passes, and
\* result = C(30, 15)
C19_Witness ==
    /\ cpc = "loop"
    /\ cn = 15
    /\ ci = 15
    /\ cresult = NFromSmall(155117520)

====
